---- MODULE Spec2Model ----
(***************************************************************************)
(* FlowCoordinator (flow_coordinator.py): the coordinator of the document  *)
(* question-answering pipeline.  run(files, user_question) is modelled     *)
(* statement by statement; every collaborator call (get_file_handler,      *)
(* read_file, split_text, create_embeddings, get_relative_chunks,          *)
(* run_chain) is a step of its own and is recorded, with its arguments and *)
(* its answer, in the call's own list of collaborator calls.               *)
(*                                                                         *)
(* Python values: None is <<>> and a present value v is <<v>> wherever a   *)
(* slot may hold None (files, the result of run).  Strings are strings,    *)
(* lists are sequences.  A null entry of the file list is NullFile.        *)
(***************************************************************************)
EXTENDS Naturals, Sequences, FiniteSets

\* ------------------------------------------------------------------ bounds

\* Longest file list a caller passes; the limit of the code is MaxFiles.
MaxLen == 4

\* Longest file list a caller passes when two callers run at once.
MaxConcLen == 2

\* ------------------------------------------------------- program constants

\* flow_coordinator.py:55  len(files) > 3
MaxFiles == 3

\* ---------------------------------------------------------------- values

None == <<>>
Some(v) == <<v>>

\* A caller of run.  SeqCallers call one at a time.
Callers == {1, 2}
SeqCallers == {1}

\* `file is None` (line 62): the null entry of the list.
NullFile == [name |-> "", type |-> "", text |-> ""]

\* The uploaded files a caller can pass: name, declared type, and the text
\* the handler of that type extracts from the content ("" : none).
UploadedFiles ==
    { [name |-> "alpha.pdf",   type |-> "pdf",  text |-> "Alpha text."],
      [name |-> "beta.txt",    type |-> "txt",  text |-> "Beta text."],
      [name |-> "scan.pdf",    type |-> "pdf",  text |-> ""],
      [name |-> "locked.docx", type |-> "docx", text |-> ""] }

FileEntries == UploadedFiles \cup {NullFile}

RECURSIVE ListsUpTo(_)
ListsUpTo(n) ==
    IF n = 0 THEN {<<>>}
    ELSE LET shorter == ListsUpTo(n - 1)
         IN shorter \cup
            {Append(l, f) : l \in {s \in shorter : Len(s) = n - 1},
                            f \in FileEntries}

\* The values of the parameter `files`: None, or a list of entries.
FilesArgs == {None} \cup {Some(l) : l \in ListsUpTo(MaxLen)}

\* The entries and the values of `files` of callers that run at once.
ConcEntries == { f \in FileEntries : f.name \in {"", "alpha.pdf", "scan.pdf"} }

RECURSIVE ListsOver(_, _)
ListsOver(E, n) ==
    IF n = 0 THEN {<<>>}
    ELSE LET shorter == ListsOver(E, n - 1)
         IN shorter \cup
            {Append(l, f) : l \in {s \in shorter : Len(s) = n - 1}, f \in E}

ConcFilesArgs == {None} \cup {Some(l) : l \in ListsOver(ConcEntries, MaxConcLen)}

\* The values of the parameter `user_question`.
Questions == {"", "What is Alpha?"}

\* The answers run_chain can give; "" is an empty answer.
ChainAnswers == {"", "Alpha is a thing."}

\* ------------------------------------------------------------- messages

\* flow_coordinator.py:56-57
MsgTooManyFiles == "Please upload a maximum of 3 files"

\* flow_coordinator.py:66-67  f"No text could be extracted from {file.name}. ..."
MsgNoTextIn(file) ==
    "No text could be extracted from " \o file.name
        \o ". Please ensure the file is not encrypted or corrupted."

\* flow_coordinator.py:72-73
MsgNoText ==
    "No text could be extracted from the provided files. Please try again with different files."

\* flow_coordinator.py:77-78
MsgNoChunks ==
    "Couldn't split the text into chunks. Please try again with different text."

\* flow_coordinator.py:82-83
MsgNoEmbeddings == "Couldn't create embeddings from the text. Please try again."

\* flow_coordinator.py:87-88
MsgNoDocs ==
    "Couldn't find any relevant chunks for your question. Please try asking a different question."

\* ------------------------------------------------- the tests of run, by line

\* Truth value of `files`: None and the empty list are falsy.
FilesTruthy(fs) == fs # None /\ Len(fs[1]) > 0

\* flow_coordinator.py:55  if files and len(files) > 3
TooManyFilesOffByOne(fs) == FilesTruthy(fs) /\ Len(fs[1]) > MaxFiles + 1
TooManyFiles(fs) == FilesTruthy(fs) /\ Len(fs[1]) > MaxFiles

\* flow_coordinator.py:59  if user_question and files
PipelineTriggeredByFilesAlone(q, fs) == FilesTruthy(fs)
PipelineTriggered(q, fs) == q # "" /\ FilesTruthy(fs)

\* flow_coordinator.py:60  combined_text = ""
CombinedTextKept(old) == old
InitialCombinedText(old) == ""

\* flow_coordinator.py:65  if not text
NoTextNeverChecked(t) == FALSE
NoText(t) == t = ""

\* flow_coordinator.py:71  if not combined_text
NoCombinedTextNeverChecked(t) == FALSE
NoCombinedText(t) == t = ""

\* flow_coordinator.py:76  if not chunks
NoChunksNeverChecked(ch) == FALSE
NoChunks(ch) == ch = <<>>

\* flow_coordinator.py:81  if not knowledge_base
NoKnowledgeBaseNeverChecked(kb) == FALSE
NoKnowledgeBase(kb) == kb = None

\* flow_coordinator.py:86  if not docs
NoDocsNeverChecked(d) == FALSE
NoDocs(d) == d = <<>>

\* flow_coordinator.py:90  return self.runner.run_chain(docs, user_question)
ChainReturnValidated(answer) == IF answer = "" THEN Some(MsgNoDocs) ELSE Some(answer)
ChainReturn(answer) == Some(answer)

\* flow_coordinator.py:59  the if has no else: run ends without a return
\* statement and the call evaluates to None.
ImplicitReturnOfEmptyString == Some("")
ImplicitReturn == None

\* ------------------------------------------------------- the collaborators

\* FileHandlerFactory.get_file_handler(file_type) -> Handler
HandlerFor(type) == type \o "_handler"

\* Handler.read_file(file) -> string | empty
ReadFileResult(h, file) == file.text

\* The texts the handlers extract, each a possible chunk.
ExtractedTexts == { f.text : f \in UploadedFiles } \ {""}

\* DefaultTextProcessor.split_text(text) -> sequence of chunks, possibly empty:
\* nothing, the text as one chunk, or the text cut in two where two
\* extracted texts meet.
SplitTextResults(t) ==
    {<<>>, <<t>>} \cup { <<p[1], p[2]>> : p \in { x \in ExtractedTexts \X ExtractedTexts :
                                                      x[1] \o x[2] = t } }

\* DefaultTextProcessor.create_embeddings(chunks) -> KnowledgeBase | empty
CreateEmbeddingsResults(ch) == {None, Some(ch)}

\* QAChainRunner.get_relative_chunks(knowledge_base, question)
\*   -> sequence of chunks | empty
\* nothing, every chunk of the knowledge base, or its first chunk alone.
GetRelativeChunksResults(kb, q) ==
    IF kb = None THEN {<<>>} ELSE {<<>>, kb[1], SubSeq(kb[1], 1, 1)}

\* QAChainRunner.run_chain(chunks, question) -> string
RunChainResults(d, q) == ChainAnswers

\* The faults a collaborator call can raise instead of returning: no handler
\* is registered for the file type, or the collaborator fails.
FaultsOf(op) ==
    IF op = "get_file_handler" THEN {"ValueError"} ELSE {"RuntimeError", "TimeoutError"}

\* The outcome of a call of run that a fault left.
Raised(fault) == <<"raised", fault>>

\* One recorded collaborator call.
CallRecord(op, args, ret) == <<op, args, ret>>

\* A collaborator that answers deterministically gives, for an operation and
\* arguments it has answered in the call before, the same answer again.
Answers(before, op, args, possible) ==
    LET known == { before[i][3] : i \in { j \in DOMAIN before :
                       before[j][1] = op /\ before[j][2] = args } }
    IN IF known # {} THEN known ELSE possible

\* ------------------------------------------------------------------ state

VARIABLES
    self,            \* the coordinator's fields, set by __init__
    pc,              \* per caller: where its call of run stands
    files,           \* per caller: the argument files
    user_question,   \* per caller: the argument user_question
    idx,             \* per caller: position of `for file in files`
    handler,         \* per caller: local handler
    text,            \* per caller: local text
    combined_text,   \* per caller: local combined_text
    chunks,          \* per caller: local chunks
    knowledge_base,  \* per caller: local knowledge_base
    docs,            \* per caller: local docs
    result,          \* per caller: what run returned
    calls,           \* per caller: the collaborator calls of its run, in order
    log,             \* per caller: the log lines of its run, in order
    prev             \* per caller: result, calls and log of the call before,
                     \*   when this call repeats it with the same arguments

args == <<files, user_question>>
locals == <<idx, handler, text, combined_text, chunks, knowledge_base, docs>>
outcome == <<result, calls, log>>
vars == <<self, pc, args, locals, outcome, prev>>

NoPrev == [has |-> FALSE, result |-> None, calls |-> <<>>, log |-> <<>>]

\* A coordinator before __init__ has run: no field is set.
Unbuilt ==
    [param_controller |-> "",
     factory |-> "",
     processor |-> "",
     runner |-> [built |-> FALSE, param_controller |-> "", setup_calls |-> 0]]

\* flow_coordinator.py:42  QAChainRunner(param_controller)
NewRunner(param_controller) ==
    [built |-> TRUE, param_controller |-> param_controller, setup_calls |-> 0]

\* flow_coordinator.py:43  self.runner.setup()
RunnerNeverSetUp(runner) == runner
RunnerSetup(runner) == [runner EXCEPT !.setup_calls = @ + 1]

\* flow_coordinator.py:34-43  the next statement of __init__ that acts on
\* the coordinator: lines 34, 40, 41, 42, 43 in turn.
InitStep(s) ==
    IF s.param_controller = "" THEN [s EXCEPT !.param_controller = "param_controller"]
    ELSE IF s.factory = "" THEN [s EXCEPT !.factory = "FileHandlerFactory()"]
    ELSE IF s.processor = ""
         THEN [s EXCEPT !.processor = "DefaultTextProcessor(" \o s.param_controller \o ")"]
    ELSE IF ~s.runner.built THEN [s EXCEPT !.runner = NewRunner(s.param_controller)]
    ELSE [s EXCEPT !.runner = RunnerSetup(s.runner)]

\* flow_coordinator.py:32-43  the coordinator as __init__ leaves it
Constructed == InitStep(InitStep(InitStep(InitStep(InitStep(Unbuilt)))))

Init ==
    /\ self = Constructed
    /\ pc = [c \in Callers |-> "idle"]
    /\ files = [c \in Callers |-> None]
    /\ user_question = [c \in Callers |-> ""]
    /\ idx = [c \in Callers |-> 1]
    /\ handler = [c \in Callers |-> ""]
    /\ text = [c \in Callers |-> ""]
    /\ combined_text = [c \in Callers |-> ""]
    /\ chunks = [c \in Callers |-> <<>>]
    /\ knowledge_base = [c \in Callers |-> None]
    /\ docs = [c \in Callers |-> <<>>]
    /\ result = [c \in Callers |-> None]
    /\ calls = [c \in Callers |-> <<>>]
    /\ log = [c \in Callers |-> <<>>]
    /\ prev = [c \in Callers |-> NoPrev]

Set(f, c, v) == [f EXCEPT ![c] = v]
Goto(c, label) == pc' = Set(pc, c, label)
Record(c, op, as, ret) == calls' = Set(calls, c, Append(calls[c], CallRecord(op, as, ret)))
LoggedAsWarning(c, level, msg) == log' = Set(log, c, Append(log[c], <<"warning", msg>>))
Logged(c, level, msg) == log' = Set(log, c, Append(log[c], <<level, msg>>))
Return(c, value) == result' = Set(result, c, value) /\ Goto(c, "done")
FileList(c) == files[c][1]

\* flow_coordinator.py:60  combined_text is a local of run: every call has
\* the slot of its own frame.
FrameOfCoordinator(c) == CHOOSE k \in Callers : \A j \in Callers : k <= j
Frame(c) == c

\* flow_coordinator.py:69  combined_text += text
AccumulatePrepended(acc, t) == t \o acc
Accumulate(acc, t) == acc \o t

\* ------------------------------------------------------------ run, by step

\* flow_coordinator.py:46  a caller enters run(files, user_question).
Call(c, fs, q) ==
    /\ pc[c] = "idle"
    /\ files' = Set(files, c, fs)
    /\ user_question' = Set(user_question, c, q)
    /\ Goto(c, "count_check")
    /\ UNCHANGED <<self, locals, outcome, prev>>

\* The caller, having its result, calls run again with the same arguments.
\* What the finished call returned, called and logged is kept for comparison.
\* The slots of the locals still hold what the finished call wrote last: run
\* assigns each local (lines 60-85) before it reads it.
CallAgain(c) ==
    /\ pc[c] = "done"
    /\ prev' = Set(prev, c, [has |-> TRUE, result |-> result[c],
                              calls |-> calls[c], log |-> log[c]])
    /\ result' = Set(result, c, None)
    /\ calls' = Set(calls, c, <<>>)
    /\ log' = Set(log, c, <<>>)
    /\ Goto(c, "count_check")
    /\ UNCHANGED <<self, args, locals>>

\* The caller drops the result (or the fault that escaped); the frame of the
\* finished call is gone.
Release(c) ==
    /\ pc[c] \in {"done", "raised"}
    /\ files' = Set(files, c, None)
    /\ user_question' = Set(user_question, c, "")
    /\ idx' = Set(idx, c, 1)
    /\ handler' = Set(handler, c, "")
    /\ text' = Set(text, c, "")
    /\ combined_text' = Set(combined_text, c, "")
    /\ chunks' = Set(chunks, c, <<>>)
    /\ knowledge_base' = Set(knowledge_base, c, None)
    /\ docs' = Set(docs, c, <<>>)
    /\ result' = Set(result, c, None)
    /\ calls' = Set(calls, c, <<>>)
    /\ log' = Set(log, c, <<>>)
    /\ prev' = Set(prev, c, NoPrev)
    /\ Goto(c, "idle")
    /\ UNCHANGED self

\* flow_coordinator.py:55-57
CountCheck(c) ==
    /\ pc[c] = "count_check"
    /\ IF TooManyFiles(files[c])
       THEN /\ Logged(c, "warning", MsgTooManyFiles)
            /\ Return(c, Some(MsgTooManyFiles))
       ELSE /\ Goto(c, "input_check")
            /\ UNCHANGED <<result, log>>
    /\ UNCHANGED <<self, args, locals, calls, prev>>

\* flow_coordinator.py:59-60, and the end of run when the test fails
InputCheck(c) ==
    /\ pc[c] = "input_check"
    /\ IF PipelineTriggered(user_question[c], files[c])
       THEN /\ combined_text' = Set(combined_text, Frame(c), InitialCombinedText(combined_text[Frame(c)]))
            /\ idx' = Set(idx, c, 1)
            /\ Goto(c, "for_file")
            /\ UNCHANGED result
       ELSE /\ Return(c, ImplicitReturn)
            /\ UNCHANGED <<combined_text, idx>>
    /\ UNCHANGED <<self, args, handler, text, chunks, knowledge_base, docs,
                   calls, log, prev>>

\* flow_coordinator.py:61-62  for file in files: if file is not None
ForFile(c) ==
    /\ pc[c] = "for_file"
    /\ IF idx[c] > Len(FileList(c))
       THEN /\ Goto(c, "text_check")
            /\ UNCHANGED idx
       ELSE IF FileList(c)[idx[c]] # NullFile
            THEN /\ Goto(c, "get_file_handler")
                 /\ UNCHANGED idx
            ELSE /\ idx' = Set(idx, c, idx[c] + 1)
                 /\ UNCHANGED pc
    /\ UNCHANGED <<self, args, handler, text, combined_text, chunks,
                   knowledge_base, docs, outcome, prev>>

\* flow_coordinator.py:63  handler = self.factory.get_file_handler(file.type)
GetFileHandler(c) ==
    /\ pc[c] = "get_file_handler"
    /\ LET file == FileList(c)[idx[c]]
           h == HandlerFor(file.type)
       IN /\ handler' = Set(handler, c, h)
          /\ Record(c, "get_file_handler", <<file.type>>, h)
    /\ Goto(c, "read_file")
    /\ UNCHANGED <<self, args, idx, text, combined_text, chunks,
                   knowledge_base, docs, result, log, prev>>

\* flow_coordinator.py:64-69  text = handler.read_file(file); if not text ...
ReadFile(c) ==
    /\ pc[c] = "read_file"
    /\ LET file == FileList(c)[idx[c]]
           t == ReadFileResult(handler[c], file)
       IN /\ text' = Set(text, c, t)
          /\ Record(c, "read_file", <<handler[c], file>>, t)
          /\ IF NoText(t)
             THEN /\ Logged(c, "error", MsgNoTextIn(file))
                  /\ Return(c, Some(MsgNoTextIn(file)))
                  /\ UNCHANGED <<combined_text, idx>>
             ELSE /\ combined_text' = Set(combined_text, Frame(c),
                                           Accumulate(combined_text[Frame(c)], t))
                  /\ idx' = Set(idx, c, idx[c] + 1)
                  /\ Goto(c, "for_file")
                  /\ UNCHANGED <<result, log>>
    /\ UNCHANGED <<self, args, handler, chunks, knowledge_base, docs, prev>>

\* flow_coordinator.py:71-73
TextCheck(c) ==
    /\ pc[c] = "text_check"
    /\ IF NoCombinedText(combined_text[Frame(c)])
       THEN /\ Logged(c, "warning", MsgNoText)
            /\ Return(c, Some(MsgNoText))
       ELSE /\ Goto(c, "split_text")
            /\ UNCHANGED <<result, log>>
    /\ UNCHANGED <<self, args, locals, calls, prev>>

\* flow_coordinator.py:75-78  chunks = self.processor.split_text(combined_text)
SplitText(c) ==
    /\ pc[c] = "split_text"
    /\ \E ch \in Answers(prev[c].calls, "split_text", <<combined_text[Frame(c)]>>,
                         SplitTextResults(combined_text[Frame(c)])) :
          /\ chunks' = Set(chunks, c, ch)
          /\ Record(c, "split_text", <<combined_text[Frame(c)]>>, ch)
          /\ IF NoChunks(ch)
             THEN /\ Logged(c, "warning", MsgNoChunks)
                  /\ Return(c, Some(MsgNoChunks))
             ELSE /\ Goto(c, "create_embeddings")
                  /\ UNCHANGED <<result, log>>
    /\ UNCHANGED <<self, args, idx, handler, text, combined_text,
                   knowledge_base, docs, prev>>

\* flow_coordinator.py:80-83  knowledge_base = self.processor.create_embeddings(chunks)
CreateEmbeddings(c) ==
    /\ pc[c] = "create_embeddings"
    /\ \E kb \in Answers(prev[c].calls, "create_embeddings", <<chunks[c]>>,
                         CreateEmbeddingsResults(chunks[c])) :
          /\ knowledge_base' = Set(knowledge_base, c, kb)
          /\ Record(c, "create_embeddings", <<chunks[c]>>, kb)
          /\ IF NoKnowledgeBase(kb)
             THEN /\ Logged(c, "warning", MsgNoEmbeddings)
                  /\ Return(c, Some(MsgNoEmbeddings))
             ELSE /\ Goto(c, "get_relative_chunks")
                  /\ UNCHANGED <<result, log>>
    /\ UNCHANGED <<self, args, idx, handler, text, combined_text, chunks,
                   docs, prev>>

\* flow_coordinator.py:85-88  docs = self.runner.get_relative_chunks(knowledge_base, user_question)
GetRelativeChunks(c) ==
    /\ pc[c] = "get_relative_chunks"
    /\ \E d \in Answers(prev[c].calls, "get_relative_chunks",
                        <<knowledge_base[c], user_question[c]>>,
                        GetRelativeChunksResults(knowledge_base[c], user_question[c])) :
          /\ docs' = Set(docs, c, d)
          /\ Record(c, "get_relative_chunks", <<knowledge_base[c], user_question[c]>>, d)
          /\ IF NoDocs(d)
             THEN /\ Logged(c, "warning", MsgNoDocs)
                  /\ Return(c, Some(MsgNoDocs))
             ELSE /\ Goto(c, "run_chain")
                  /\ UNCHANGED <<result, log>>
    /\ UNCHANGED <<self, args, idx, handler, text, combined_text, chunks,
                   knowledge_base, prev>>

\* flow_coordinator.py:90  return self.runner.run_chain(docs, user_question)
RunChain(c) ==
    /\ pc[c] = "run_chain"
    /\ \E answer \in Answers(prev[c].calls, "run_chain", <<docs[c], user_question[c]>>,
                             RunChainResults(docs[c], user_question[c])) :
          /\ Record(c, "run_chain", <<docs[c], user_question[c]>>, answer)
          /\ Return(c, ChainReturn(answer))
    /\ UNCHANGED <<self, args, locals, log, prev>>

\* flow_coordinator.py:59-90  no statement of run is inside a try: a fault
\* leaves run as it was raised, nothing is logged.
CaughtAndReported(c, fault) == Logged(c, "error", fault) /\ Return(c, Some(fault))
Escapes(c, fault) ==
    /\ result' = Set(result, c, Raised(fault))
    /\ Goto(c, "raised")
    /\ UNCHANGED log

\* flow_coordinator.py:63, 64, 75, 80, 85, 90  the collaborator call that
\* caller c is about to make raises a fault instead of returning.
Raise(c) ==
    /\ pc[c] \in {"get_file_handler", "read_file", "split_text",
                  "create_embeddings", "get_relative_chunks", "run_chain"}
    /\ \E fault \in FaultsOf(pc[c]) :
          /\ Record(c, "raise", <<pc[c]>>, fault)
          /\ Escapes(c, fault)
    /\ UNCHANGED <<self, args, locals, prev>>

\* One step of caller c inside run.
Step(c) ==
    \/ CountCheck(c)
    \/ InputCheck(c)
    \/ ForFile(c)
    \/ GetFileHandler(c)
    \/ ReadFile(c)
    \/ TextCheck(c)
    \/ SplitText(c)
    \/ CreateEmbeddings(c)
    \/ GetRelativeChunks(c)
    \/ RunChain(c)

\* Calls of run one after the other, as the single-threaded UI makes them.
Next ==
    \E c \in SeqCallers :
        \/ pc[c] = "idle" /\ \E fs \in FilesArgs, q \in Questions : Call(c, fs, q)
        \/ CallAgain(c)
        \/ Release(c)
        \/ Step(c)

Spec == Init /\ [][Next]_vars

\* Single-threaded, blocking execution: a call of run that has a next
\* statement executes it, every collaborator call returning.
SpecFair == Spec /\ WF_vars(\E c \in SeqCallers : Step(c))

\* The coordinator from before its construction: __init__ runs statement by
\* statement, and run can be called once it has returned.
InitNew ==
    /\ self = Unbuilt
    /\ pc = [c \in Callers |-> "idle"]
    /\ files = [c \in Callers |-> None]
    /\ user_question = [c \in Callers |-> ""]
    /\ idx = [c \in Callers |-> 1]
    /\ handler = [c \in Callers |-> ""]
    /\ text = [c \in Callers |-> ""]
    /\ combined_text = [c \in Callers |-> ""]
    /\ chunks = [c \in Callers |-> <<>>]
    /\ knowledge_base = [c \in Callers |-> None]
    /\ docs = [c \in Callers |-> <<>>]
    /\ result = [c \in Callers |-> None]
    /\ calls = [c \in Callers |-> <<>>]
    /\ log = [c \in Callers |-> <<>>]
    /\ prev = [c \in Callers |-> NoPrev]

\* flow_coordinator.py:32-43  one statement of __init__
Construct ==
    /\ self # Constructed
    /\ self' = InitStep(self)
    /\ UNCHANGED <<pc, args, locals, outcome, prev>>

NextLife ==
    \/ Construct
    \/ self = Constructed /\ Next

SpecLife == InitNew /\ [][NextLife]_vars

\* Calls of run one after the other, with collaborators that may raise.
NextFault ==
    \E c \in SeqCallers :
        \/ pc[c] = "idle" /\ \E fs \in FilesArgs, q \in Questions : Call(c, fs, q)
        \/ Release(c)
        \/ Step(c)
        \/ Raise(c)

SpecFault == Init /\ [][NextFault]_vars

\* Calls of run by several callers at once on the one coordinator, their
\* steps interleaved at every statement and collaborator call.
NextConc ==
    \E c \in Callers :
        \/ pc[c] = "idle" /\ \E fs \in ConcFilesArgs, q \in Questions : Call(c, fs, q)
        \/ Release(c)
        \/ Step(c)

SpecConc == Init /\ [][NextConc]_vars

\* ------------------------------------------------- vocabulary of the claims

InCall(c) == pc[c] # "idle"
Done(c) == pc[c] = "done"
Ops(c) == { calls[c][i][1] : i \in DOMAIN calls[c] }
Called(c, op) == op \in Ops(c)
CountOf(c, op) == Cardinality({ i \in DOMAIN calls[c] : calls[c][i][1] = op })
RecordsOf(c, op) == { calls[c][i] : i \in { j \in DOMAIN calls[c] : calls[c][j][1] = op } }
LaterStages == {"split_text", "create_embeddings", "get_relative_chunks", "run_chain"}
Collaborators == {"get_file_handler", "read_file"} \cup LaterStages

\* The handler of a non-null entry extracts no text from it.
YieldsNoText(f) == f # NullFile /\ ReadFileResult(HandlerFor(f.type), f) = ""
EmptyAt(l) == { i \in DOMAIN l : YieldsNoText(l[i]) }
FirstEmptyAt(l) == CHOOSE i \in EmptyAt(l) : \A j \in EmptyAt(l) : i <= j
NonNullUpTo(l, k) == Cardinality({ i \in 1..k : l[i] # NullFile })

\* A request the pipeline runs for: a question and 1 to MaxFiles files.
Accepted(c) ==
    /\ files[c] # None
    /\ Len(FileList(c)) \in 1..MaxFiles
    /\ user_question[c] # ""

\* The texts of the non-null entries of a list, concatenated in list order.
RECURSIVE ConcatTexts(_)
ConcatTexts(l) ==
    IF l = <<>> THEN ""
    ELSE IF Head(l) = NullFile THEN ConcatTexts(Tail(l))
         ELSE ReadFileResult(HandlerFor(Head(l).type), Head(l)) \o ConcatTexts(Tail(l))

\* What a collaborator answered, in this call, to an operation on arguments.
AnswersGiven(c, op, as) == { r[3] : r \in { x \in RecordsOf(c, op) : x[2] = as } }

\* What run(files, user_question) returns when it runs alone and the
\* collaborators answer as they answered this call.
AloneResults(c) ==
    LET fs == files[c]
        q == user_question[c]
    IN IF fs # None /\ Len(fs[1]) > 3 THEN {Some(MsgTooManyFiles)}
       ELSE IF fs = None \/ fs = Some(<<>>) \/ q = "" THEN {None}
       ELSE IF EmptyAt(fs[1]) # {} THEN {Some(MsgNoTextIn(fs[1][FirstEmptyAt(fs[1])]))}
       ELSE IF ConcatTexts(fs[1]) = "" THEN {Some(MsgNoText)}
       ELSE UNION { IF ch = <<>> THEN {Some(MsgNoChunks)}
                    ELSE UNION { IF kb = None THEN {Some(MsgNoEmbeddings)}
                                 ELSE UNION { IF d = <<>> THEN {Some(MsgNoDocs)}
                                              ELSE { Some(a) : a \in AnswersGiven(c, "run_chain", <<d, q>>) }
                                              : d \in AnswersGiven(c, "get_relative_chunks", <<kb, q>>) }
                                 : kb \in AnswersGiven(c, "create_embeddings", <<ch>>) }
                    : ch \in AnswersGiven(c, "split_text", <<ConcatTexts(fs[1])>>) }

\* ------------------------------------------------------------------ claims

\* C1: for every file list longer than 3, whatever the question and also
\* with null entries, run returns exactly "Please upload a maximum of 3
\* files" and calls no collaborator at all.
C1_TooManyFiles ==
    \A c \in Callers :
        (InCall(c) /\ files[c] # None /\ Len(FileList(c)) > 3) =>
            /\ calls[c] = <<>>
            /\ pc[c] \in {"count_check", "done"}
            /\ Done(c) => result[c] = Some("Please upload a maximum of 3 files")

C1_Witness ==
    \E c \in Callers :
        /\ Done(c)
        /\ files[c] # None
        /\ Len(FileList(c)) > 3
        /\ \E i \in DOMAIN FileList(c) : FileList(c)[i] = NullFile
        /\ user_question[c] = ""
        /\ result[c] = Some(MsgTooManyFiles)

\* C2: with a question and 1 to 3 files, when a non-null file yields empty
\* text, run returns the message naming the first such file in upload order,
\* reads no file after it, and calls none of split_text, create_embeddings,
\* get_relative_chunks, run_chain.
C2_FirstEmptyFileAborts ==
    \A c \in Callers :
        (InCall(c) /\ Accepted(c) /\ EmptyAt(FileList(c)) # {}) =>
            LET l == FileList(c)
                k == FirstEmptyAt(l)
            IN /\ CountOf(c, "read_file") <= NonNullUpTo(l, k)
               /\ CountOf(c, "get_file_handler") <= NonNullUpTo(l, k)
               /\ Ops(c) \cap LaterStages = {}
               /\ Done(c) =>
                    /\ result[c] = Some("No text could be extracted from " \o l[k].name
                          \o ". Please ensure the file is not encrypted or corrupted.")
                    /\ CountOf(c, "read_file") = NonNullUpTo(l, k)
                    /\ calls[c][Len(calls[c])] = <<"read_file", <<HandlerFor(l[k].type), l[k]>>, "">>

C2_Witness ==
    \E c \in Callers :
        /\ Done(c) /\ Accepted(c)
        /\ Len(FileList(c)) = 3
        /\ FileList(c)[1].text # ""
        /\ YieldsNoText(FileList(c)[2])
        /\ YieldsNoText(FileList(c)[3])
        /\ FileList(c)[3] # FileList(c)[2]
        /\ result[c] = Some(MsgNoTextIn(FileList(c)[2]))

\* Every stage of the call succeeded: an accepted request, text from every
\* non-null file, and no empty answer from any collaborator.
AllStagesSucceeded(c) ==
    /\ Accepted(c)
    /\ EmptyAt(FileList(c)) = {}
    /\ \E i \in DOMAIN FileList(c) : FileList(c)[i] # NullFile
    /\ \A r \in RecordsOf(c, "split_text") : r[3] # <<>>
    /\ \A r \in RecordsOf(c, "create_embeddings") : r[3] # None
    /\ \A r \in RecordsOf(c, "get_relative_chunks") : r[3] # <<>>

\* C3: when every stage succeeds, run returns exactly the value run_chain
\* returned for the retrieved chunks and the question, unchecked, even when
\* that value is empty.
C3_ReturnsChainAnswer ==
    \A c \in Callers :
        (Done(c) /\ AllStagesSucceeded(c)) =>
            /\ CountOf(c, "run_chain") = 1
            /\ CountOf(c, "get_relative_chunks") = 1
            /\ LET last == calls[c][Len(calls[c])]
                   retrieved == calls[c][Len(calls[c]) - 1]
               IN /\ last[1] = "run_chain"
                  /\ retrieved[1] = "get_relative_chunks"
                  /\ last[2] = <<retrieved[3], user_question[c]>>
                  /\ result[c] = Some(last[3])

C3_Witness ==
    \E c \in Callers :
        /\ Done(c) /\ AllStagesSucceeded(c)
        /\ Len(FileList(c)) = 2
        /\ FileList(c)[1].text = "Alpha text."
        /\ FileList(c)[2].text = "Beta text."
        /\ RecordsOf(c, "run_chain") =
              {<<"run_chain", <<(<<"Alpha text.", "Beta text.">>), "What is Alpha?">>, "">>}
        /\ result[c] = Some("")

\* C4: when the knowledge base is non-empty but get_relative_chunks returns
\* no chunks, run returns the retrieval-failure message and run_chain is
\* never called in that run.
C4_RetrievalFailure ==
    \A c \in Callers :
        (\E r \in RecordsOf(c, "get_relative_chunks") : r[2][1] # None /\ r[3] = <<>>) =>
            /\ ~Called(c, "run_chain")
            /\ Done(c)
            /\ result[c] = Some("Couldn't find any relevant chunks for your question. Please try asking a different question.")

C4_Witness ==
    \E c \in Callers :
        /\ Done(c)
        /\ \E r \in RecordsOf(c, "get_relative_chunks") : r[2][1] # None /\ r[3] = <<>>
        /\ result[c] = Some(MsgNoDocs)

\* C5: when create_embeddings returns an empty knowledge base, run returns
\* the embedding-failure message and neither get_relative_chunks nor
\* run_chain is called in that run.
C5_EmbeddingFailure ==
    \A c \in Callers :
        (\E r \in RecordsOf(c, "create_embeddings") : r[3] = None) =>
            /\ ~Called(c, "get_relative_chunks")
            /\ ~Called(c, "run_chain")
            /\ Done(c)
            /\ result[c] = Some("Couldn't create embeddings from the text. Please try again.")

C5_Witness ==
    \E c \in Callers :
        /\ Done(c)
        /\ \E r \in RecordsOf(c, "create_embeddings") : r[3] = None
        /\ result[c] = Some(MsgNoEmbeddings)

\* C6: when the files give non-empty text but split_text returns no chunks,
\* run returns the chunking-failure message, and create_embeddings,
\* get_relative_chunks and run_chain are not called.
C6_ChunkingFailure ==
    \A c \in Callers :
        (\E r \in RecordsOf(c, "split_text") : r[2][1] # "" /\ r[3] = <<>>) =>
            /\ Ops(c) \cap {"create_embeddings", "get_relative_chunks", "run_chain"} = {}
            /\ Done(c)
            /\ result[c] = Some("Couldn't split the text into chunks. Please try again with different text.")

C6_Witness ==
    \E c \in Callers :
        /\ Done(c)
        /\ \E r \in RecordsOf(c, "split_text") : r[2][1] # "" /\ r[3] = <<>>
        /\ result[c] = Some(MsgNoChunks)

\* C7: a request with 0 files (empty or absent list) and a question, or with
\* files and an empty question, never calls a collaborator.
C7_PipelineNotTriggered ==
    \A c \in Callers :
        (InCall(c) /\ ( \/ (~FilesTruthy(files[c]) /\ user_question[c] # "")
                        \/ (FilesTruthy(files[c]) /\ user_question[c] = "") )) =>
            Ops(c) \cap Collaborators = {}

C7_Witness ==
    \E c \in Callers :
        /\ Done(c)
        /\ FilesTruthy(files[c])
        /\ Len(FileList(c)) <= MaxFiles
        /\ \E i \in DOMAIN FileList(c) : FileList(c)[i] # NullFile
        /\ user_question[c] = ""
        /\ calls[c] = <<>>

\* C8: a second call of run with the same files and question, the
\* collaborators answering as they did, returns the same output after the
\* same sequence of collaborator calls, and the coordinator's fields are as
\* construction left them.
C8_Idempotent ==
    \A c \in Callers :
        (Done(c) /\ prev[c].has) =>
            /\ result[c] = prev[c].result
            /\ calls[c] = prev[c].calls
            /\ log[c] = prev[c].log
            /\ self = Constructed

C8_Witness ==
    \E c \in Callers :
        /\ Done(c) /\ prev[c].has
        /\ Accepted(c)
        /\ Len(FileList(c)) = 2
        /\ Called(c, "run_chain")
        /\ result[c] = Some("Alpha is a thing.")
        /\ result[c] = prev[c].result

\* The six fixed failure messages, the per-file one for every file.
FailureMessages ==
    {MsgTooManyFiles, MsgNoText, MsgNoChunks, MsgNoEmbeddings, MsgNoDocs}
        \cup { MsgNoTextIn(f) : f \in UploadedFiles }

\* C9: every call of run returns a string, one of the six failure messages
\* or the chain's answer, never an absent value.
C9_AlwaysReturnsString ==
    \A c \in Callers :
        Done(c) => /\ result[c] # None
                   /\ result[c][1] \in FailureMessages \cup ChainAnswers

\* C10 as stated: whenever files is empty or falsy, or the question is
\* empty, run returns None and no message, also for more than 3 files with
\* an empty question.
C10_Original ==
    \A c \in Callers :
        (Done(c) /\ (~FilesTruthy(files[c]) \/ user_question[c] = "")) =>
            /\ result[c] = None
            /\ log[c] = <<>>

\* C10, amended: whenever files is empty or falsy, or the question is empty
\* and files has at most 3 entries, run returns None and no message.
C10_FallThrough ==
    \A c \in Callers :
        (Done(c) /\ ( \/ ~FilesTruthy(files[c])
                      \/ (user_question[c] = "" /\ Len(FileList(c)) <= 3) )) =>
            /\ result[c] = None
            /\ log[c] = <<>>

C10_Witness ==
    \E c \in Callers :
        /\ Done(c)
        /\ FilesTruthy(files[c])
        /\ Len(FileList(c)) = MaxFiles
        /\ user_question[c] = ""
        /\ result[c] = None
        /\ log[c] = <<>>

\* C11: calls of run that run at once on the same coordinator do not
\* interfere through the coordinator's own state: no field of the
\* coordinator is written, the combined text, chunks, knowledge base and
\* retrieved chunks a call works on are those of its own files and of the
\* answers given to it, and its result is the one it gives alone with the
\* same collaborator answers.
C11_ConcurrentCallsIndependent ==
    /\ self = Constructed
    /\ \A c \in Callers :
          /\ pc[c] \in {"text_check", "split_text"} =>
                combined_text[c] = ConcatTexts(FileList(c))
          /\ pc[c] = "create_embeddings" =>
                chunks[c] \in AnswersGiven(c, "split_text", <<ConcatTexts(FileList(c))>>)
          /\ pc[c] = "get_relative_chunks" =>
                knowledge_base[c] \in AnswersGiven(c, "create_embeddings", <<chunks[c]>>)
          /\ pc[c] = "run_chain" =>
                docs[c] \in AnswersGiven(c, "get_relative_chunks",
                                         <<knowledge_base[c], user_question[c]>>)
          /\ Done(c) => result[c] \in AloneResults(c)

C11_Witness ==
    \E c \in Callers, d \in Callers :
        /\ c # d
        /\ pc[c] = "run_chain"
        /\ pc[d] = "read_file"
        /\ CountOf(d, "read_file") = 1
        /\ combined_text[c] = "Alpha text.Alpha text."
        /\ combined_text[d] = "Alpha text."

\* The six stages of the pipeline, by the place of run; 0 outside them.
StageOf(label) ==
    CASE label \in {"for_file", "get_file_handler", "read_file"} -> 1
      [] label = "text_check" -> 2
      [] label = "split_text" -> 3
      [] label = "create_embeddings" -> 4
      [] label = "get_relative_chunks" -> 5
      [] label = "run_chain" -> 6
      [] OTHER -> 0

\* One step of caller c keeps the order of the stages.
StageStep(c) ==
    LET from == StageOf(pc[c])
        to == StageOf(pc'[c])
    IN /\ (from = 0 /\ to > 0) => (pc[c] = "input_check" /\ pc'[c] = "for_file")
       /\ (from > 0 /\ pc'[c] # pc[c]) =>
            \/ /\ to = from
               /\ from = 1
            \/ /\ to = from + 1
               /\ to = 2 => \A i \in DOMAIN calls'[c] :
                               calls'[c][i][1] = "read_file" => calls'[c][i][3] # ""
               /\ to = 3 => combined_text'[c] # ""
               /\ to = 4 => chunks'[c] # <<>>
               /\ to = 5 => knowledge_base'[c] # None
               /\ to = 6 => docs'[c] # <<>>
            \/ /\ pc'[c] = "done"
               /\ result'[c] # None
               /\ from = 1 => /\ result'[c][1] \in { MsgNoTextIn(f) : f \in UploadedFiles }
                              /\ calls'[c][Len(calls'[c])][3] = ""
               /\ from = 2 => result'[c][1] = MsgNoText /\ combined_text[c] = ""
               /\ from = 3 => result'[c][1] = MsgNoChunks /\ chunks'[c] = <<>>
               /\ from = 4 => result'[c][1] = MsgNoEmbeddings /\ knowledge_base'[c] = None
               /\ from = 5 => result'[c][1] = MsgNoDocs /\ docs'[c] = <<>>
               /\ from = 6 => result'[c][1] \in ChainAnswers

\* C12: in every run the stages occur in the order read files, check
\* combined text, split_text, create_embeddings, get_relative_chunks,
\* run_chain; a stage is entered only after the one before it gave a
\* non-empty result, a failed stage leads directly to the return of its
\* message, and no stage is entered again after a later one has started.
C12_StagesInOrder == [][\A c \in Callers : StageStep(c)]_vars

C12_Witness ==
    \E c \in Callers :
        /\ Done(c)
        /\ CountOf(c, "read_file") = 3
        /\ \A op \in Collaborators : CountOf(c, op) >= 1
        /\ result[c] = Some("Alpha is a thing.")

\* C13: each of the six short-circuit exits of run emits exactly one log
\* line, whose text is the returned message, at level error for the
\* per-file extraction failure and at level warning for the five others; a
\* run that returns the chain's answer, and a run that falls through, emits
\* no log line.
C13_OneLogLinePerExit ==
    \A c \in Callers :
        /\ ~Done(c) => log[c] = <<>>
        /\ Done(c) =>
             IF result[c] = None \/ Called(c, "run_chain")
             THEN log[c] = <<>>
             ELSE /\ result[c][1] \in FailureMessages
                  /\ log[c] = << <<IF result[c][1] \in { MsgNoTextIn(f) : f \in UploadedFiles }
                                   THEN "error" ELSE "warning",
                                   result[c][1]>> >>

C13_Witness ==
    \E c \in Callers :
        /\ Done(c)
        /\ log[c] = << <<"error", "No text could be extracted from scan.pdf. Please ensure the file is not encrypted or corrupted.">> >>
        /\ prev[c].has
        /\ prev[c].log = log[c]

IsReadFile(r) == r[1] = "read_file"
IsGetFileHandler(r) == r[1] = "get_file_handler"
IsNotNull(f) == f # NullFile

\* C14: when split_text is called, its argument is the concatenation, in
\* upload order and with no separator, of the texts read from exactly the
\* non-null entries of files, each read once; null entries contribute
\* nothing and no handler is resolved for them.
C14_SplitsConcatenation ==
    \A c \in Callers :
        (files[c] # None /\ calls[c] # <<>>) =>
            LET nonnull == SelectSeq(FileList(c), IsNotNull)
                reads == SelectSeq(calls[c], IsReadFile)
                resolved == SelectSeq(calls[c], IsGetFileHandler)
            IN /\ Len(reads) <= Len(nonnull)
               /\ Len(resolved) <= Len(nonnull)
               /\ \A i \in DOMAIN reads : reads[i][2][2] = nonnull[i]
               /\ \A i \in DOMAIN resolved : resolved[i][2] = <<nonnull[i].type>>
               /\ \A r \in RecordsOf(c, "split_text") :
                     /\ r[2] = <<ConcatTexts(FileList(c))>>
                     /\ Len(reads) = Len(nonnull)
                     /\ Len(resolved) = Len(nonnull)

C14_Witness ==
    \E c \in Callers :
        /\ Done(c)
        /\ files[c] # None
        /\ Len(FileList(c)) = 3
        /\ FileList(c)[1].name = "alpha.pdf"
        /\ FileList(c)[2] = NullFile
        /\ FileList(c)[3].name = "beta.txt"
        /\ \E r \in RecordsOf(c, "split_text") : r[2] = <<"Alpha text.Beta text.">>
        /\ CountOf(c, "read_file") = 2
        /\ CountOf(c, "get_file_handler") = 2

\* C15 as stated: with a question and 1 to 3 files, when all files together
\* produce no text (the concatenation of the extracted text is empty), run
\* returns the generic no-text message and does not call split_text.
C15_Original ==
    \A c \in Callers :
        (Done(c) /\ Accepted(c) /\ ConcatTexts(FileList(c)) = "") =>
            /\ result[c] = Some("No text could be extracted from the provided files. Please try again with different files.")
            /\ ~Called(c, "split_text")

\* C15, amended: with a question and 1 to 3 files, when all files together
\* produce no text and no non-null file yields empty text (every entry is
\* null), run returns the generic no-text message and does not call
\* split_text.
C15_EmptyCombinedText ==
    \A c \in Callers :
        (InCall(c) /\ Accepted(c) /\ ConcatTexts(FileList(c)) = ""
                   /\ EmptyAt(FileList(c)) = {}) =>
            /\ ~Called(c, "split_text")
            /\ Done(c) =>
                 result[c] = Some("No text could be extracted from the provided files. Please try again with different files.")

C15_Witness ==
    \E c \in Callers :
        /\ Done(c) /\ Accepted(c)
        /\ FileList(c) = <<NullFile, NullFile>>
        /\ result[c] = Some(MsgNoText)
        /\ log[c] = << <<"warning", MsgNoText>> >>

\* C16: when a collaborator call inside run raises a fault, run does not
\* convert it to a message: the same fault escapes run, no later
\* collaborator is called, and no log line is emitted for it.
C16_FaultsEscape ==
    \A c \in Callers :
        /\ \A i \in DOMAIN calls[c] :
              calls[c][i][1] = "raise" =>
                 /\ i = Len(calls[c])
                 /\ pc[c] = "raised"
                 /\ result[c] = Raised(calls[c][i][3])
                 /\ log[c] = <<>>
        /\ pc[c] = "raised" =>
              /\ calls[c] # <<>>
              /\ calls[c][Len(calls[c])][1] = "raise"

C16_Witness ==
    \E c \in Callers :
        /\ pc[c] = "raised"
        /\ Len(calls[c]) = 6
        /\ calls[c][6] = <<"raise", <<"run_chain">>, "TimeoutError">>
        /\ result[c] = <<"raised", "TimeoutError">>
        /\ log[c] = <<>>

\* C17: the runner's setup() is called exactly once per coordinator,
\* during construction and after the runner was built with the parameter
\* controller, so it precedes every get_relative_chunks and run_chain call;
\* no call of run, however many follow, calls setup() again.
C17_SetupOnceAtConstruction ==
    /\ self.runner.setup_calls <= 1
    /\ self.runner.setup_calls = 1 =>
          /\ self.runner.built
          /\ self.runner.param_controller = "param_controller"
          /\ self.param_controller = "param_controller"
    /\ self = Constructed => self.runner.setup_calls = 1
    /\ \A c \in Callers :
          /\ InCall(c) => self.runner.setup_calls = 1
          /\ (Called(c, "get_relative_chunks") \/ Called(c, "run_chain")) =>
                self.runner.setup_calls = 1
          /\ ~Called(c, "setup")

C17_Witness ==
    \E c \in Callers :
        /\ Done(c)
        /\ prev[c].has
        /\ Called(c, "run_chain")
        /\ \E i \in DOMAIN prev[c].calls : prev[c].calls[i][1] = "run_chain"
        /\ self.runner.setup_calls = 1

\* C18: the generic no-text message is returned only when the question is
\* non-empty, files has 1 to 3 entries and every entry is null, so that no
\* handler was called at all; whenever at least one non-null file yields
\* empty text the run ends with the message naming that file instead.
C18_GenericMessageOnlyForNullEntries ==
    \A c \in Callers :
        /\ (Done(c) /\ result[c] = Some(MsgNoText)) =>
              /\ user_question[c] # ""
              /\ files[c] # None
              /\ Len(FileList(c)) \in 1..3
              /\ \A i \in DOMAIN FileList(c) : FileList(c)[i] = NullFile
              /\ calls[c] = <<>>
        /\ (Done(c) /\ Accepted(c) /\ EmptyAt(FileList(c)) # {}) =>
              /\ result[c] # Some(MsgNoText)
              /\ result[c] = Some(MsgNoTextIn(FileList(c)[FirstEmptyAt(FileList(c))]))

C18_Witness ==
    \E c \in Callers :
        /\ Done(c)
        /\ user_question[c] # ""
        /\ files[c] = Some(<<NullFile, NullFile, NullFile>>)
        /\ result[c] = Some(MsgNoText)
        /\ calls[c] = <<>>

\* The collaborator calls of a run stay within its budget: at most 3
\* get_file_handler/read_file pairs, one call each of the later stages.
WithinCallBudget(c) ==
    /\ CountOf(c, "get_file_handler") <= 3
    /\ CountOf(c, "read_file") <= CountOf(c, "get_file_handler")
    /\ CountOf(c, "get_file_handler") <= CountOf(c, "read_file") + 1
    /\ \A op \in LaterStages : CountOf(c, op) <= 1

\* C19: provided every collaborator call returns, every call of run
\* eventually reaches a terminal state (a returned message, the chain's
\* answer, or the fall-through) after at most 3 get_file_handler/read_file
\* pairs and at most one call each of split_text, create_embeddings,
\* get_relative_chunks and run_chain.
C19_RunTerminates ==
    /\ [](\A c \in Callers : WithinCallBudget(c))
    /\ \A c \in Callers : (InCall(c) ~> Done(c))

C19_Witness ==
    \E c \in Callers :
        /\ Done(c)
        /\ prev[c].has
        /\ CountOf(c, "get_file_handler") = 3
        /\ CountOf(c, "read_file") = 3
        /\ \A op \in LaterStages : CountOf(c, op) = 1

====
